---------------------------- MODULE Spec2Model ----------------------------
(* ReelPick: the per-user rating / watchlist store and the collaborative-   *)
(* filtering recommendation engine of services/DatabaseService              *)
(* (src/src/components/NetworkStatusBar.tsx, lines 623-1002).               *)
(*                                                                          *)
(* The Firestore database is two collections:                               *)
(*   users/<uid>                {watchedMovies: [...], watchlist: [...]}    *)
(*   ratings/<uid>_<movieId>    {userId, movieId, movie, rating, review,    *)
(*                               timestamp}                                 *)
(* A collection is a function whose DOMAIN is the set of existing document  *)
(* ids.  User ids and movie ids are small positive integers; the document   *)
(* id `${userId}_${movieId}` is the pair <<userId, movieId>>, which orders  *)
(* like the string as long as the ids are single digits.                    *)
EXTENDS Integers, Sequences, FiniteSets, TLC

VARIABLES
    users,      \* collection 'users'   : uid -> user document
    ratings,    \* collection 'ratings' : <<uid, movieId>> -> rating document
    ret,        \* the last completed call: its name and outcome; of a
                \* getRecommendedMovies call also its arguments, the read made
                \* to fail, and the local similarUsers when it returned
    call,       \* the arguments of the last call of a write operation, where
                \* the calls are made with arguments of any kind (SpecStore)
    screen,     \* the MovieDetailScreen on display and its RatingModal
                \* (SpecScreen)
    tasks       \* the calls in flight, each an async function suspended at
                \* one of its awaits with its locals (SpecAsync, SpecReaders)

vars == <<users, ratings, ret, call, screen, tasks>>

---------------------------------------------------------------------------
(* Bounds and program constants                                             *)

\* rating >= 4 is "highly rated" (filter at 926, queries at 941 and 966)
HighRating == 4

\* default value of the parameter `limit`
DefaultLimit == 10

\* largest explicit `limit` a call is made with
MaxLimit == 1

\* longest watchedMovies list a call may still append to
MaxWatched == 3

Users == {1, 2, 3}

\* the movie ids of RateCalls
Movies == {1, 2, 3}

Reviews == {"nice"}

Dates == {1}

\* a negative limit, zero, a limit that cuts the list, and the default
Limits == {-1, 0, MaxLimit, DefaultLimit}

\* the calls addWatchedMovie(userId, movie, rating) made: <<userId, movie id, rating>>
RateCalls ==
    { <<1, 1, 5>>, <<1, 2, 3>>,
      <<2, 1, 4>>, <<2, 2, 5>>, <<2, 3, 5>>,
      <<3, 1, 5>>, <<3, 3, 4>> }

\* the calls updateMovieRating(userId, movieId, rating) made
RerateCalls == { <<1, 2, 4>> }

\* the calls addToWatchlist(userId, movie) and removeFromWatchlist(userId, movieId) made
WatchlistCalls == { <<1, 2>> }

\* the ratings of the scenario U = {A:5, B:3, C:4}, V = {A:5, C:4, D:5, E:4},
\* W = {A:4, D:4}, with U, V, W the users 1, 2, 3 and A .. E the movies 1 .. 5
ScenarioCalls ==
    { <<1, 1, 5>>, <<1, 2, 3>>, <<1, 3, 4>>,
      <<2, 1, 5>>, <<2, 3, 4>>, <<2, 4, 5>>, <<2, 5, 4>>,
      <<3, 1, 4>>, <<3, 4, 4>> }

\* display fields of a movie as the catalog provider supplies them
CatalogTitle(m) == <<"title", m>>

FailPoints ==
    {"none", "ensureUserDocument", "getWatchedMovies", "ratersQuery", "neighborQuery"}

\* default value of the property maxRating of RatingStars: the stars 1 .. 5
MaxRating == 5

\* the review texts typed into the rating modal
ModalReviews == {"", "nice"}

\* longest watchedMovies list a call of SpecStore may still append to
MaxRecords == 2

\* the user and the movies of the calls of SpecStore and SpecWatchlist
StoreUsers == {1}

StoreMovies == {1, 2}

\* the readings of the clock (new Date(), Timestamp.now())
Clock == {1, 2}

\* the ratings and the review texts the calls of SpecStore pass; the modal
\* passes the empty string for a review left blank
StoreRatings == {2, 5}

StoreReviews == {"", "nice", "good"}

\* the display fields a caller may pass for a movie: the catalog's, or others
DisplayTitles(m) == {CatalogTitle(m), <<"retitled", m>>}

\* the calls that may be in flight together
Slots == {1, 2}

\* no call made yet in a slot
IdleTask == [pc |-> "idle"]

---------------------------------------------------------------------------
(* Firestore primitives                                                     *)

EmptyCollection == [k \in {} |-> {}]

\* setDoc(ref, data): create or replace the document
SetDoc(coll, id, data) ==
    [k \in DOMAIN coll \cup {id} |-> IF k = id THEN data ELSE coll[k]]

\* arrayUnion(e): append e unless an equal element is already in the array
ArrayUnion(arr, e) ==
    IF \E i \in 1 .. Len(arr) : arr[i] = e THEN arr ELSE Append(arr, e)

\* the document a missing user gets (uid, email, username, createdAt left out)
NewUserDocument == [watchedMovies |-> << >>, watchlist |-> << >>]

\* ensureUserDocument with a working store
EnsureUserDocument(us, userId) ==
    IF userId \in DOMAIN us THEN us ELSE SetDoc(us, userId, NewUserDocument)

\* Firestore's default order of a query with an inequality filter on
\* 'rating': by rating ascending, then by document id ascending.
DocBefore(a, b) ==
    \/ a.rating < b.rating
    \/ a.rating = b.rating /\ a.userId < b.userId
    \/ a.rating = b.rating /\ a.userId = b.userId /\ a.movieId < b.movieId

RECURSIVE InQueryOrder(_)
InQueryOrder(docs) ==
    IF docs = {} THEN << >>
    ELSE LET first == CHOOSE d \in docs : \A e \in docs \ {d} : DocBefore(d, e)
         IN  <<first>> \o InQueryOrder(docs \ {first})

\* the documents of collection 'ratings'
RatingDocs(rt) == {rt[k] : k \in DOMAIN rt}

\* where('movieId', '==', movieId), where('rating', '>=', 4)
RatersOfMovie(rt, movieId) ==
    InQueryOrder({d \in RatingDocs(rt) : d.movieId = movieId /\ d.rating >= HighRating})

\* the neighbor query without its filter on 'rating'
AllRatingsOfUser(rt, userId) ==
    InQueryOrder({d \in RatingDocs(rt) : d.userId = userId})

\* where('userId', '==', userId), where('rating', '>=', 4)
HighRatingsOfUser(rt, userId) ==
    InQueryOrder({d \in RatingDocs(rt) : d.userId = userId /\ d.rating >= HighRating})

---------------------------------------------------------------------------
(* The recommendation engine: getRecommendedMovies, lines 911-1002          *)

\* getWatchedMovies: userData.watchedMovies || [], [] without a document
GetWatchedMovies(us, userId) ==
    IF userId \in DOMAIN us THEN us[userId].watchedMovies ELSE << >>

\* userWatchedMovies.map(movie => movie.id)
WatchedMovieIds(watched) == [i \in 1 .. Len(watched) |-> watched[i].id]

\* the liked filter with the bar one star lower
RatedAtLeastThree(movie) == movie.rating # 0 /\ movie.rating >= HighRating - 1

\* movie.rating && movie.rating >= 4
IsHighlyRated(movie) == movie.rating # 0 /\ movie.rating >= HighRating

HighlyRatedMovies(watched) == SelectSeq(watched, IsHighlyRated)

\* the neighbors collected in an array: push instead of Set.add
ArrayPush(set, e) == Append(set, e)

\* Set.add: a JavaScript Set keeps insertion order and no duplicates
SetAdd(set, e) ==
    IF \E i \in 1 .. Len(set) : set[i] = e THEN set ELSE Append(set, e)

\* the raters loop without its test of the rater
AnyRater(raterId, userId) == TRUE

\* data.userId !== userId
IsOtherUser(raterId, userId) == raterId # userId

\* querySnapshot.forEach of the raters query
RECURSIVE AddRaters(_, _, _)
AddRaters(set, docs, userId) ==
    IF docs = << >> THEN set
    ELSE AddRaters(IF IsOtherUser(Head(docs).userId, userId)
                   THEN SetAdd(set, Head(docs).userId)
                   ELSE set,
                   Tail(docs), userId)

\* for (const movie of highlyRatedMovies): one raters query per liked movie
RECURSIVE SimilarUsers(_, _, _, _)
SimilarUsers(set, movies, rt, userId) ==
    IF movies = << >> THEN set
    ELSE SimilarUsers(AddRaters(set, RatersOfMovie(rt, Head(movies).id), userId),
                      Tail(movies), rt, userId)

\* the map that finds no key: every rating makes an entry of its own
MapNeverHas(map, key) == FALSE

\* recommendedMoviesMap: a JavaScript Map, as its entries in insertion order
MapHas(map, key) == \E i \in 1 .. Len(map) : map[i].key = key

\* the score assigned instead of added to
ReplaceScore(score, rating) == rating

\* movie.score += data.rating
AddToScore(score, rating) == score + rating

\* the entry replaced by the fields of the rating met last
AccumulateLatest(map, data) ==
    IF MapHas(map, data.movieId)
    THEN [i \in 1 .. Len(map) |->
            IF map[i].key = data.movieId
            THEN [map[i] EXCEPT !.value =
                     [id    |-> data.movie.id,
                      title |-> data.movie.title,
                      score |-> AddToScore(@.score, data.rating)]]
            ELSE map[i]]
    ELSE Append(map, [key   |-> data.movieId,
                      value |-> [id    |-> data.movie.id,
                                 title |-> data.movie.title,
                                 score |-> data.rating]])

\* the body of the forEach over one neighbor's ratings, after the skip test
Accumulate(map, data) ==
    IF MapHas(map, data.movieId)
    THEN [i \in 1 .. Len(map) |->
            IF map[i].key = data.movieId
            THEN [map[i] EXCEPT !.value.score = AddToScore(@, data.rating)]
            ELSE map[i]]
    ELSE Append(map, [key   |-> data.movieId,
                      value |-> [id    |-> data.movie.id,
                                 title |-> data.movie.title,
                                 score |-> data.rating]])

\* the candidates loop without its skip
NeverWatched(watchedIds, movieId) == FALSE

\* watchedMovieIds.includes(data.movieId)
AlreadyWatched(watchedIds, movieId) ==
    \E i \in 1 .. Len(watchedIds) : watchedIds[i] = movieId

\* querySnapshot.forEach of one neighbor's query
RECURSIVE AddCandidates(_, _, _)
AddCandidates(map, docs, watchedIds) ==
    IF docs = << >> THEN map
    ELSE AddCandidates(IF AlreadyWatched(watchedIds, Head(docs).movieId)
                       THEN map
                       ELSE Accumulate(map, Head(docs)),
                       Tail(docs), watchedIds)

\* for (const similarUserId of similarUsers): one query per neighbor
RECURSIVE RecommendedMoviesMap(_, _, _, _)
RecommendedMoviesMap(map, neighbors, rt, watchedIds) ==
    IF neighbors = << >> THEN map
    ELSE RecommendedMoviesMap(
             AddCandidates(map, HighRatingsOfUser(rt, Head(neighbors)), watchedIds),
             Tail(neighbors), rt, watchedIds)

\* Array.from(map.values())
MapValues(map) == [i \in 1 .. Len(map) |-> map[i].value]

\* insert e before the first element whose score is not higher: a sort that
\* turns the order of equal scores around
RECURSIVE InsertBeforeEqual(_, _)
InsertBeforeEqual(sorted, e) ==
    IF sorted = << >> THEN <<e>>
    ELSE IF Head(sorted).score > e.score
         THEN <<Head(sorted)>> \o InsertBeforeEqual(Tail(sorted), e)
         ELSE <<e>> \o sorted

\* insert e behind every element whose score is not lower: the comparator
\* (a, b) => b.score - a.score of a stable sort
RECURSIVE InsertByScore(_, _)
InsertByScore(sorted, e) ==
    IF sorted = << >> THEN <<e>>
    ELSE IF Head(sorted).score >= e.score
         THEN <<Head(sorted)>> \o InsertByScore(Tail(sorted), e)
         ELSE <<e>> \o sorted

RECURSIVE SortFrom(_, _)
SortFrom(sorted, rest) ==
    IF rest = << >> THEN sorted
    ELSE SortFrom(InsertByScore(sorted, Head(rest)), Tail(rest))

\* the candidates left in the order of the map
Unsorted(list) == list

\* .sort((a, b) => b.score - a.score)
SortByScore(list) == SortFrom(<< >>, list)

\* Array.prototype.slice(0, limit): a negative end counts from the back
Slice(list, limit) ==
    LET n   == Len(list)
        end == IF limit < 0
               THEN (IF n + limit < 0 THEN 0 ELSE n + limit)
               ELSE (IF limit > n THEN n ELSE limit)
    IN  SubSeq(list, 1, end)

\* lines 959-994: the candidates of the neighbors, ranked
RankedCandidates(neighbors, rt, watchedIds) ==
    SortByScore(MapValues(RecommendedMoviesMap(<< >>, neighbors, rt, watchedIds)))

\* whether the read that `fail` names is issued at all, and so fails: a
\* raters query needs a liked movie (937), a neighbor query a neighbor (962)
ReadFails(fail, liked, neighbors) ==
    CASE fail = "none"               -> FALSE
      [] fail = "ensureUserDocument" -> TRUE
      [] fail = "getWatchedMovies"   -> TRUE
      [] fail = "ratersQuery"        -> Len(liked) > 0
      [] fail = "neighborQuery"      -> Len(liked) > 0 /\ Len(neighbors) > 0

\* a failure inside ensureUserDocument is caught there (683-686); any other
\* one reaches the catch of getRecommendedMovies (998-1001)
ReachesCatch(fail, liked, neighbors) ==
    fail # "ensureUserDocument" /\ ReadFails(fail, liked, neighbors)

\* catch (error) { console.error(...); return []; }
CatchValue == << >>

\* One call getRecommendedMovies(userId, limit) in which the read `fail`
\* fails, given what the call computes from the database when nothing fails:
\* liked = highlyRatedMovies, neighbors = similarUsers, ranked = the sorted
\* candidates.  A read that fails ends the call in the catch, with the
\* locals not yet computed still empty.
ReturnFrom(userId, limit, fail, liked, neighbors, ranked) ==
    /\ users' = IF fail = "ensureUserDocument"
                THEN users
                ELSE EnsureUserDocument(users, userId)
    /\ ratings' = ratings
    /\ ret' = [op        |-> "getRecommendedMovies",
               userId    |-> userId,
               limit     |-> limit,
               fail      |-> fail,
               failed    |-> ReadFails(fail, liked, neighbors),
               status    |-> "resolved",
               neighbors |-> IF fail \in {"getWatchedMovies", "ratersQuery"}
                             THEN << >>
                             ELSE neighbors,
               value     |-> IF ReachesCatch(fail, liked, neighbors) THEN CatchValue
                             ELSE IF Len(liked) = 0 THEN << >>
                             ELSE IF Len(neighbors) = 0 THEN << >>
                             ELSE Slice(ranked, limit)]

\* lines 959-1001, for each <<limit, fail>> of `inputs`
RankCandidates(userId, inputs, watched, liked, neighbors) ==
    \E c \in inputs :
        ReturnFrom(userId, c[1], c[2], liked, neighbors,
                   RankedCandidates(neighbors, ratings, WatchedMovieIds(watched)))

\* lines 934-953
FindSimilarUsers(userId, inputs, watched, liked) ==
    RankCandidates(userId, inputs, watched, liked,
                   SimilarUsers(<< >>, liked, ratings, userId))

\* lines 921-926
ReadWatchedMovies(userId, inputs, watched) ==
    FindSimilarUsers(userId, inputs, watched, HighlyRatedMovies(watched))

\* the calls getRecommendedMovies(userId, limit) with <<limit, fail>> in `inputs`
GetRecommendedMoviesWith(userId, inputs) ==
    ReadWatchedMovies(userId, inputs, GetWatchedMovies(users, userId))

GetRecommendedMovies(userId, limit, fail) ==
    GetRecommendedMoviesWith(userId, {<<limit, fail>>})

---------------------------------------------------------------------------
(* The store's write operations, lines 707-891                              *)

\* JavaScript null, as Firestore stores it
Null == "<null>"

\* a || b on review texts: the empty string and null are falsy
OrElse(a, b) == IF a = "" \/ a = Null THEN b ELSE a

\* the presence test left to arrayUnion
NotInWatchlist(watchlist, movieId) == FALSE

\* userData.watchlist.find(m => m.id === movie.id)
InWatchlist(watchlist, movieId) ==
    \E i \in 1 .. Len(watchlist) : watchlist[i].id = movieId

\* the filter with its comparison turned around
OnlyMovie(watchlist, movieId) ==
    LET Keep(movie) == movie.id = movieId IN SelectSeq(watchlist, Keep)

\* userData.watchlist.filter(movie => movie.id !== movieId)
WithoutMovie(watchlist, movieId) ==
    LET Keep(movie) == movie.id # movieId IN SelectSeq(watchlist, Keep)

\* removeFromWatchlist, lines 737-764, on the collection `us`
WatchlistRemoved(us, userId, movieId) ==
    LET us1 == EnsureUserDocument(us, userId)
    IN  [us1 EXCEPT ![userId].watchlist = WithoutMovie(@, movieId)]

AddToWatchlist(userId, movie) ==
    LET us1 == EnsureUserDocument(users, userId)
        present == InWatchlist(us1[userId].watchlist, movie.id)
    IN  /\ users' = IF present
                    THEN us1
                    ELSE [us1 EXCEPT ![userId].watchlist = ArrayUnion(@, movie)]
        /\ ratings' = ratings
        /\ ret' = [op |-> "addToWatchlist", value |-> ~present]

RemoveFromWatchlist(userId, movieId) ==
    /\ users' = WatchlistRemoved(users, userId, movieId)
    /\ ratings' = ratings
    /\ ret' = [op |-> "removeFromWatchlist", value |-> TRUE]

\* the record addWatchedMovie puts into watchedMovies (794-799)
WatchedRecord(movie, rating, review, watchedDate) ==
    [id |-> movie.id, title |-> movie.title, rating |-> rating,
     review |-> review, watchedDate |-> watchedDate]

\* the document addWatchedMovie puts into 'ratings' (803-814)
RatingDocument(userId, movie, rating, review, timestamp) ==
    [userId |-> userId, movieId |-> movie.id,
     movie |-> [id |-> movie.id, title |-> movie.title],
     rating |-> rating, review |-> review, timestamp |-> timestamp]

AddWatchedMovie(userId, movie, rating, review, now) ==
    LET us1 == EnsureUserDocument(users, userId)
        us2 == [us1 EXCEPT ![userId].watchedMovies =
                    ArrayUnion(@, WatchedRecord(movie, rating, review, now))]
    IN  /\ users' = WatchlistRemoved(us2, userId, movie.id)
        /\ ratings' = SetDoc(ratings, <<userId, movie.id>>,
                             RatingDocument(userId, movie, rating, review, now))
        /\ ret' = [op |-> "addWatchedMovie", value |-> TRUE]

\* userData.watchedMovies.map(...), lines 838-847
WithRating(watched, movieId, rating, review) ==
    [i \in 1 .. Len(watched) |->
        IF watched[i].id = movieId
        THEN [watched[i] EXCEPT !.rating = rating,
                                !.review = OrElse(review, watched[i].review)]
        ELSE watched[i]]

\* the rating document written anew, with the time of the update
RatingRestamped(rt, watched, userId, movieId, rating, review, now) ==
    IF \E i \in 1 .. Len(watched) : watched[i].id = movieId
    THEN SetDoc(rt, <<userId, movieId>>,
             [userId |-> userId, movieId |-> movieId,
              movie |-> [id |-> movieId, title |-> CatalogTitle(movieId)],
              rating |-> rating, review |-> OrElse(review, Null),
              timestamp |-> now])
    ELSE rt

\* lines 855-881: update the rating document, or create it from the first
\* watchedMovies record of the movie when there is one
RatingUpdated(rt, watched, userId, movieId, rating, review, now) ==
    LET id == <<userId, movieId>>
        found == {i \in 1 .. Len(watched) : watched[i].id = movieId}
        first == CHOOSE i \in found : \A j \in found : i <= j
    IN  IF id \in DOMAIN rt
        THEN [rt EXCEPT ![id].rating = rating, ![id].review = OrElse(review, Null)]
        ELSE IF found # {}
        THEN SetDoc(rt, id,
                 [userId |-> userId, movieId |-> movieId,
                  movie |-> [id |-> movieId, title |-> watched[first].title],
                  rating |-> rating, review |-> OrElse(review, Null),
                  timestamp |-> now])
        ELSE rt

UpdateMovieRating(userId, movieId, rating, review, now) ==
    LET us1 == EnsureUserDocument(users, userId)
        watched == us1[userId].watchedMovies
    IN  /\ users' = [us1 EXCEPT ![userId].watchedMovies =
                         WithRating(watched, movieId, rating, review)]
        /\ ratings' = RatingUpdated(ratings, watched, userId, movieId,
                                    rating, review, now)
        /\ ret' = [op |-> "updateMovieRating", value |-> TRUE]

---------------------------------------------------------------------------
(* The database, and the calls made on it                                   *)

Init ==
    /\ users = EmptyCollection
    /\ ratings = EmptyCollection
    /\ ret = [op |-> "none"]
    /\ call = [op |-> "none"]
    /\ screen = [route |-> "none"]
    /\ tasks = [s \in Slots |-> IdleTask]

Movie(m) == [id |-> m, title |-> CatalogTitle(m)]

Rate ==
    \E c \in RateCalls, rv \in Reviews, d \in Dates :
        /\ Len(GetWatchedMovies(users, c[1])) < MaxWatched
        /\ AddWatchedMovie(c[1], Movie(c[2]), c[3], rv, d)
        /\ UNCHANGED <<call, screen, tasks>>

Rerate ==
    \E c \in RerateCalls, rv \in Reviews, d \in Dates :
        /\ UpdateMovieRating(c[1], c[2], c[3], rv, d)
        /\ UNCHANGED <<call, screen, tasks>>

Watchlist ==
    \E c \in WatchlistCalls :
        /\ AddToWatchlist(c[1], Movie(c[2]))
        /\ UNCHANGED <<call, screen, tasks>>

Unwatchlist ==
    \E c \in WatchlistCalls :
        /\ RemoveFromWatchlist(c[1], c[2])
        /\ UNCHANGED <<call, screen, tasks>>

\* every limit without a failure, and every failure with the default limit
RecommendInputs == (Limits \X {"none"}) \cup ({DefaultLimit} \X FailPoints)

Recommend ==
    \E u \in Users :
        /\ GetRecommendedMoviesWith(u, RecommendInputs)
        /\ UNCHANGED <<call, screen, tasks>>

Next == Rate \/ Rerate \/ Watchlist \/ Unwatchlist \/ Recommend

Spec == Init /\ [][Next]_vars

\* the database of the scenario being filled, and recommendations asked of it
ScenarioRate ==
    \E c \in ScenarioCalls, rv \in Reviews, d \in Dates :
        /\ AddWatchedMovie(c[1], Movie(c[2]), c[3], rv, d)
        /\ UNCHANGED <<call, screen, tasks>>

ScenarioRecommend ==
    \E u \in Users :
        /\ GetRecommendedMovies(u, DefaultLimit, "none")
        /\ UNCHANGED <<call, screen, tasks>>

NextScenario == ScenarioRate \/ ScenarioRecommend

SpecScenario == Init /\ [][NextScenario]_vars

\* the clock never runs backwards: no stored date is later than `now`
NotBefore(now) ==
    /\ \A u \in DOMAIN users :
           \A i \in 1 .. Len(users[u].watchedMovies) :
               users[u].watchedMovies[i].watchedDate <= now
    /\ \A k \in DOMAIN ratings : ratings[k].timestamp <= now

\* the rating operations called with a rating and review of any kind, for a
\* movie rated before or not
StoreAddWatchedMovie ==
    \E u \in StoreUsers, m \in StoreMovies, r \in StoreRatings,
       rv \in StoreReviews, now \in Clock :
        /\ Len(GetWatchedMovies(users, u)) < MaxRecords
        /\ NotBefore(now)
        /\ AddWatchedMovie(u, Movie(m), r, rv, now)
        /\ call' = [op |-> "addWatchedMovie", userId |-> u, movieId |-> m,
                    rating |-> r, review |-> rv, now |-> now]
        /\ UNCHANGED <<screen, tasks>>

StoreUpdateMovieRating ==
    \E u \in StoreUsers, m \in StoreMovies, r \in StoreRatings,
       rv \in StoreReviews, now \in Clock :
        /\ NotBefore(now)
        /\ UpdateMovieRating(u, m, r, rv, now)
        /\ call' = [op |-> "updateMovieRating", userId |-> u, movieId |-> m,
                    rating |-> r, review |-> rv, now |-> now]
        /\ UNCHANGED <<screen, tasks>>

\* getWatchlist: userData.watchlist || [], [] without a document
GetWatchlist(us, userId) ==
    IF userId \in DOMAIN us THEN us[userId].watchlist ELSE << >>

\* the watchlist operations called for any movie with any display fields,
\* and movies of the watchlist or not marked as watched
ListAddToWatchlist ==
    \E u \in StoreUsers, m \in StoreMovies :
        \E t \in DisplayTitles(m) :
            /\ AddToWatchlist(u, [id |-> m, title |-> t])
            /\ call' = [op |-> "addToWatchlist", userId |-> u, movieId |-> m,
                        title |-> t]
            /\ UNCHANGED <<screen, tasks>>

ListRemoveFromWatchlist ==
    \E u \in StoreUsers, m \in StoreMovies :
        /\ RemoveFromWatchlist(u, m)
        /\ call' = [op |-> "removeFromWatchlist", userId |-> u, movieId |-> m]
        /\ UNCHANGED <<screen, tasks>>

ListAddWatchedMovie ==
    \E u \in StoreUsers, m \in StoreMovies, r \in StoreRatings, now \in Clock :
        /\ Len(GetWatchedMovies(users, u)) < MaxRecords
        /\ NotBefore(now)
        /\ AddWatchedMovie(u, Movie(m), r, "", now)
        /\ call' = [op |-> "addWatchedMovie", userId |-> u, movieId |-> m,
                    listed |-> InWatchlist(GetWatchlist(users, u), m)]
        /\ UNCHANGED <<screen, tasks>>

NextWatchlist ==
    ListAddToWatchlist \/ ListRemoveFromWatchlist \/ ListAddWatchedMovie

SpecWatchlist == Init /\ [][NextWatchlist]_vars

---------------------------------------------------------------------------
(* MovieDetailScreen with its RatingModal and RatingStars                   *)

\* the state of a MovieDetailScreen once fetchUserData has completed: the
\* useState defaults, overwritten from the watchlist and the first
\* watchedMovies record of the movie
FetchedScreen(us, userId, movieId) ==
    LET watched == GetWatchedMovies(us, userId)
        found == {i \in 1 .. Len(watched) : watched[i].id = movieId}
        first == CHOOSE i \in found : \A j \in found : i <= j
    IN  [route              |-> "MovieDetail",
         userId             |-> userId,
         movieId            |-> movieId,
         inWatchlist        |-> InWatchlist(GetWatchlist(us, userId), movieId),
         watched            |-> found # {},
         userRating         |-> IF found # {} THEN watched[first].rating ELSE 0,
         userReview         |-> IF found # {}
                                THEN OrElse(watched[first].review, "")
                                ELSE "",
         ratingModalVisible |-> FALSE,
         rating             |-> 0,
         review             |-> ""]

\* RatingStars.handlePress: tapping the current rating again resets it
HandlePress(rating, selectedRating) ==
    IF selectedRating = rating THEN 0 ELSE selectedRating

\* the Save button that is never disabled
NeverDisabled(rating) == FALSE

\* disabled={rating === 0} of the Save button
SaveDisabled(rating) == rating = 0

\* navigate to the screen of a movie; getWatchlist and getWatchedMovies
\* ensure the user document
OpenMovieDetail ==
    \E u \in StoreUsers, m \in StoreMovies :
        /\ users' = EnsureUserDocument(users, u)
        /\ screen' = FetchedScreen(users, u, m)
        /\ ret' = [op |-> "fetchUserData"]
        /\ UNCHANGED <<ratings, call, tasks>>

\* handleMarkAsWatched; the modal's effect takes over initialRating and
\* initialReview when it becomes visible
MarkAsWatched ==
    /\ screen.route = "MovieDetail"
    /\ ~screen.ratingModalVisible
    /\ screen' = [screen EXCEPT !.ratingModalVisible = TRUE,
                                !.rating = screen.userRating,
                                !.review = screen.userReview]
    /\ UNCHANGED <<users, ratings, ret, call, tasks>>

TapStar ==
    /\ screen.route = "MovieDetail"
    /\ screen.ratingModalVisible
    /\ \E star \in 1 .. MaxRating :
           screen' = [screen EXCEPT !.rating = HandlePress(screen.rating, star)]
    /\ UNCHANGED <<users, ratings, ret, call, tasks>>

ChangeReview ==
    /\ screen.route = "MovieDetail"
    /\ screen.ratingModalVisible
    /\ \E text \in ModalReviews : screen' = [screen EXCEPT !.review = text]
    /\ UNCHANGED <<users, ratings, ret, call, tasks>>

CloseModal ==
    /\ screen.route = "MovieDetail"
    /\ screen.ratingModalVisible
    /\ screen' = [screen EXCEPT !.ratingModalVisible = FALSE]
    /\ UNCHANGED <<users, ratings, ret, call, tasks>>

\* Save: RatingModal.handleSave, then MovieDetailScreen.handleSaveRating
SaveRating ==
    /\ screen.route = "MovieDetail"
    /\ screen.ratingModalVisible
    /\ ~SaveDisabled(screen.rating)
    /\ \E now \in Dates :
           IF screen.watched
           THEN UpdateMovieRating(screen.userId, screen.movieId,
                                  screen.rating, screen.review, now)
           ELSE AddWatchedMovie(screen.userId, Movie(screen.movieId),
                                screen.rating, screen.review, now)
    /\ screen' = [screen EXCEPT !.inWatchlist = IF screen.watched THEN @ ELSE FALSE,
                                !.watched = TRUE,
                                !.userRating = screen.rating,
                                !.userReview = screen.review,
                                !.ratingModalVisible = FALSE]
    /\ UNCHANGED <<call, tasks>>

NextScreen ==
    \/ OpenMovieDetail
    \/ MarkAsWatched
    \/ TapStar
    \/ ChangeReview
    \/ CloseModal
    \/ SaveRating

SpecScreen == Init /\ [][NextScreen]_vars

NextStore == StoreAddWatchedMovie \/ StoreUpdateMovieRating

SpecStore == Init /\ [][NextStore]_vars

---------------------------------------------------------------------------
(* What the claims speak of, read off the database                          *)

\* the last call was getRecommendedMovies; the database is as it left it
IsRecommendation == ret.op = "getRecommendedMovies"

Returned == {ret.value[i] : i \in 1 .. Len(ret.value)}

\* the movie ids of the records in the user's watchedMovies list
WatchedIdSet(userId) ==
    LET watched == GetWatchedMovies(users, userId)
    IN  {watched[i].id : i \in 1 .. Len(watched)}

\* liked movies: those with a watchedMovies record of the user rated >= 4
LikedBy(userId) ==
    LET watched == GetWatchedMovies(users, userId)
    IN  {watched[i].id : i \in {j \in 1 .. Len(watched) : watched[j].rating >= HighRating}}

\* the ratings index holds a rating >= 4 of the movie by the user
HasHighRating(userId, movieId) ==
    /\ <<userId, movieId>> \in DOMAIN ratings
    /\ ratings[<<userId, movieId>>].rating >= HighRating

\* the ratings index holds a rating < 4 of the movie by the user
HasLowRating(userId, movieId) ==
    /\ <<userId, movieId>> \in DOMAIN ratings
    /\ ratings[<<userId, movieId>>].rating < HighRating

\* neighbors: the other users who rated >= 4 a movie the user likes
NeighborsOf(userId) ==
    {n \in Users \ {userId} : \E m \in LikedBy(userId) : HasHighRating(n, m)}

RECURSIVE SumOfHighRatings(_, _)
SumOfHighRatings(raters, movieId) ==
    IF raters = {} THEN 0
    ELSE LET n == CHOOSE x \in raters : TRUE
         IN  (IF HasHighRating(n, movieId) THEN ratings[<<n, movieId>>].rating ELSE 0)
             + SumOfHighRatings(raters \ {n}, movieId)

\* the sum over the neighbors of their ratings >= 4 of the movie
ExpectedScore(userId, movieId) == SumOfHighRatings(NeighborsOf(userId), movieId)

---------------------------------------------------------------------------
(* The claims                                                               *)

\* C1: no movie id returned by getRecommendedMovies(U, limit) is in U's own
\* rated-movie set: it is neither the id of a record of U's watchedMovies
\* list nor the movie of a (U, movieId) document of the ratings index.
C1_NeverRecommendsRated ==
    IsRecommendation =>
        \A r \in Returned :
            /\ r.id \notin WatchedIdSet(ret.userId)
            /\ <<ret.userId, r.id>> \notin DOMAIN ratings

\* a recommendation was returned although a neighbor rated >= 4 a movie that
\* the user has watched and does not like
C1_Witness ==
    /\ IsRecommendation
    /\ ret.value # << >>
    /\ \E n \in NeighborsOf(ret.userId) :
           \E m \in WatchedIdSet(ret.userId) \ LikedBy(ret.userId) : HasHighRating(n, m)

\* C2: when a read of the store fails during getRecommendedMovies (the
\* user-document read, a raters query or a neighbor's ratings query) the call
\* fails with an error instead of returning a list.
C2_FailedReadIsAnError ==
    (/\ IsRecommendation
     /\ ret.failed
     /\ ret.fail \in {"getWatchedMovies", "ratersQuery", "neighborQuery"})
        => ret.status = "rejected"

\* the database holds every rating of the scenario
ScenarioDatabase ==
    \A c \in ScenarioCalls :
        /\ <<c[1], c[2]>> \in DOMAIN ratings
        /\ ratings[<<c[1], c[2]>>].rating = c[3]
        /\ c[2] \in WatchedIdSet(c[1])

\* C3: the score of every returned movie is the sum over the neighbors of U
\* of their ratings >= 4 of that movie in the ratings index; and in the
\* scenario getRecommendedMovies(U, 10) is [D with score 9, E with score 4].
C3_ScoreIsSumOverNeighbors ==
    IsRecommendation =>
        /\ \A r \in Returned : r.score = ExpectedScore(ret.userId, r.id)
        /\ (ScenarioDatabase /\ ret.userId = 1 /\ ret.limit = 10) =>
               ret.value = << [id |-> 4, title |-> CatalogTitle(4), score |-> 9],
                              [id |-> 5, title |-> CatalogTitle(5), score |-> 4] >>

\* getRecommendedMovies(U, 10) has returned on the database of the scenario
C3_Witness ==
    /\ IsRecommendation
    /\ ScenarioDatabase
    /\ ret.userId = 1
    /\ ret.limit = 10
    /\ Len(ret.value) = 2

\* C4: for a user with no rating >= 4 (rated nothing included) and for a user
\* whose liked movies no other user rated >= 4, getRecommendedMovies returns
\* the empty sequence and raises no error.
C4_ColdStartIsEmpty ==
    (IsRecommendation /\ (LikedBy(ret.userId) = {} \/ NeighborsOf(ret.userId) = {}))
        => (ret.value = << >> /\ ret.status = "resolved")

\* no read failed, and the user likes none of the movies they watched, one of
\* which another user rated >= 4
C4_Witness ==
    /\ IsRecommendation
    /\ ret.fail = "none"
    /\ LikedBy(ret.userId) = {}
    /\ \E n \in Users \ {ret.userId} :
           \E m \in WatchedIdSet(ret.userId) : HasHighRating(n, m)

\* C5: getRecommendedMovies rejects a limit <= 0 with an InvalidInput error.
C5_RejectsInvalidLimit ==
    (IsRecommendation /\ ret.limit <= 0) => ret.status = "rejected"

\* C6: getRecommendedMovies has no side effects: whatever the store holds and
\* whoever the user is, the users collection and the ratings index are the
\* same after the call as before it.
C6_NoSideEffects == [][Recommend => UNCHANGED <<users, ratings>>]_vars

\* C7: the sequence getRecommendedMovies(userId, limit) returns is never
\* longer than limit.
C7_AtMostLimit == IsRecommendation => Len(ret.value) <= ret.limit

\* C8: the scores of a returned sequence never increase from one element to
\* the next.
C8_ScoresNonIncreasing ==
    IsRecommendation =>
        \A i \in 1 .. Len(ret.value) : \A j \in i .. Len(ret.value) :
            ret.value[i].score >= ret.value[j].score

\* two movies were returned, the one found later with the higher score
C8_Witness ==
    /\ IsRecommendation
    /\ Len(ret.value) = 2
    /\ ret.value[1].score > ret.value[2].score
    /\ ret.value[1].id > ret.value[2].id

\* C9: the user is never in their own neighbor set, and no score holds a
\* rating of the user's own.
C9_SelfExcluded ==
    IsRecommendation =>
        /\ \A i \in 1 .. Len(ret.neighbors) : ret.neighbors[i] # ret.userId
        /\ \A r \in Returned :
               r.score = SumOfHighRatings(Users \ {ret.userId}, r.id)
                         - SumOfHighRatings(Users \ (NeighborsOf(ret.userId) \cup {ret.userId}), r.id)

\* neighbors were found for a user whose own rating >= 4 of a liked movie is
\* in the ratings index
C9_Witness ==
    /\ IsRecommendation
    /\ ret.neighbors # << >>
    /\ \E m \in LikedBy(ret.userId) : HasHighRating(ret.userId, m)

C11_ReadIsIdempotent ==
    [][(/\ IsRecommendation
        /\ ret'.op = "getRecommendedMovies"
        /\ ret'.userId = ret.userId
        /\ ret'.limit = ret.limit)
           => ret'.value = ret.value]_vars

\* the last call was one of the two rating operations, and it reported success
RatingSaved ==
    /\ call.op \in {"addWatchedMovie", "updateMovieRating"}
    /\ ret.value = TRUE

\* the positions of the records of the movie in the user's watchedMovies list
RecordsOf(userId, movieId) ==
    LET watched == GetWatchedMovies(users, userId)
    IN  {i \in 1 .. Len(watched) : watched[i].id = movieId}

\* C12: at most one rating exists per (userId, movieId): a user's
\* watchedMovies list holds at most one record per movie id, and the ratings
\* index at most one entry per (userId, movieId).
C12_OneRatingPerMovie ==
    /\ \A u \in DOMAIN users : \A m \in StoreMovies :
           Cardinality(RecordsOf(u, m)) <= 1
    /\ \A j \in DOMAIN ratings : \A k \in DOMAIN ratings :
           (ratings[j].userId = ratings[k].userId
                /\ ratings[j].movieId = ratings[k].movieId) => j = k

\* C13: when addWatchedMovie or updateMovieRating reports success for
\* (userId, movieId, rating), the user's watchedMovies list and the ratings
\* index both hold a record of (userId, movieId) with that rating.
C13_SuccessMeansBothWritten ==
    RatingSaved =>
        /\ \E i \in RecordsOf(call.userId, call.movieId) :
               users[call.userId].watchedMovies[i].rating = call.rating
        /\ <<call.userId, call.movieId>> \in DOMAIN ratings
        /\ ratings[<<call.userId, call.movieId>>].rating = call.rating

\* C17: updateMovieRating on an existing (userId, movieId) record keeps the
\* watchedDate of the watchedMovies record and the timestamp of the
\* ratings-index entry, and leaves the records of the user's other movies
\* as they were.
C17_UpdateKeepsTimestamp ==
    [][(/\ call'.op = "updateMovieRating"
        /\ RecordsOf(call'.userId, call'.movieId) # {})
           => LET u == call'.userId
                  m == call'.movieId
                  before == GetWatchedMovies(users, u)
                  after == GetWatchedMovies(users', u)
              IN  /\ Len(after) = Len(before)
                  /\ \A i \in 1 .. Len(before) :
                         IF before[i].id = m
                         THEN /\ after[i].id = m
                              /\ after[i].watchedDate = before[i].watchedDate
                         ELSE after[i] = before[i]
                  /\ \A k \in DOMAIN ratings :
                         /\ k \in DOMAIN ratings'
                         /\ IF k = <<u, m>>
                            THEN ratings'[k].timestamp = ratings[k].timestamp
                            ELSE ratings'[k] = ratings[k]]_vars

\* a record rated at an earlier time was updated, and the user has a record
\* of another movie
C17_Witness ==
    /\ call.op = "updateMovieRating"
    /\ ret.value = TRUE
    /\ \E i \in RecordsOf(call.userId, call.movieId) :
           users[call.userId].watchedMovies[i].watchedDate < call.now
    /\ <<call.userId, call.movieId>> \in DOMAIN ratings
    /\ ratings[<<call.userId, call.movieId>>].timestamp < call.now
    /\ ratings[<<call.userId, call.movieId>>].rating = call.rating
    /\ \E m \in StoreMovies \ {call.movieId} : RecordsOf(call.userId, m) # {}

\* C18: updateMovieRating(userId, movieId, rating, review) on an existing
\* record replaces the review, and afterwards the review of the
\* watchedMovies record and the review of the ratings-index entry are the
\* same value, whatever the review argument.
C18_ReviewReplacedAndMirrored ==
    (/\ call.op = "updateMovieRating"
     /\ RecordsOf(call.userId, call.movieId) # {})
        => /\ <<call.userId, call.movieId>> \in DOMAIN ratings
           /\ \A i \in RecordsOf(call.userId, call.movieId) :
                  /\ users[call.userId].watchedMovies[i].review = call.review
                  /\ users[call.userId].watchedMovies[i].review
                         = ratings[<<call.userId, call.movieId>>].review

\* the positions of the entries of the movie in the user's watchlist
EntriesOf(us, userId, movieId) ==
    {i \in 1 .. Len(GetWatchlist(us, userId)) :
        GetWatchlist(us, userId)[i].id = movieId}

\* C14: after addWatchedMovie(userId, movie, rating, review) returns success
\* the user's watchlist has no entry with movie.id, and every other entry is
\* as it was.
C14_WatchedLeavesWatchlist ==
    [][(call'.op = "addWatchedMovie" /\ ret'.value = TRUE)
           => LET other(e) == e.id # call'.movieId
              IN  /\ EntriesOf(users', call'.userId, call'.movieId) = {}
                  /\ GetWatchlist(users', call'.userId)
                         = SelectSeq(GetWatchlist(users, call'.userId), other)]_vars

\* a movie was marked as watched that was on the watchlist, next to another
C14_Witness ==
    /\ call.op = "addWatchedMovie"
    /\ ret.value = TRUE
    /\ call.listed
    /\ GetWatchlist(users, call.userId) # << >>

\* C15: a user's watchlist never holds two entries with the same movie id,
\* and addToWatchlist for a movie id already present returns false and
\* leaves the watchlist as it is, whatever display fields are passed.
C15_WatchlistAddIdempotent ==
    [][/\ \A u \in DOMAIN users' : \A m \in StoreMovies :
              Cardinality(EntriesOf(users', u, m)) <= 1
       /\ (/\ call'.op = "addToWatchlist"
           /\ EntriesOf(users, call'.userId, call'.movieId) # {})
              => /\ ret'.value = FALSE
                 /\ GetWatchlist(users', call'.userId)
                        = GetWatchlist(users, call'.userId)]_vars

\* addToWatchlist returned false for a movie on the watchlist under other
\* display fields
C15_Witness ==
    /\ call.op = "addToWatchlist"
    /\ ret.value = FALSE
    /\ \E i \in EntriesOf(users, call.userId, call.movieId) :
           GetWatchlist(users, call.userId)[i].title # call.title

\* C16: every rating persisted by addWatchedMovie or updateMovieRating, in a
\* watchedMovies list and in the ratings index, is an integer in 1 .. 5;
\* the 0 a second tap of the current star resets the modal to is never
\* persisted.
C16_PersistedRatingInRange ==
    /\ \A u \in DOMAIN users :
           \A i \in 1 .. Len(users[u].watchedMovies) :
               users[u].watchedMovies[i].rating \in 1 .. 5
    /\ \A k \in DOMAIN ratings : ratings[k].rating \in 1 .. 5

\* the current star of a movie rated before was tapped again: the modal,
\* still open, shows no rating
C16_Witness ==
    /\ screen.route = "MovieDetail"
    /\ screen.ratingModalVisible
    /\ screen.watched
    /\ screen.userRating # 0
    /\ screen.rating = 0
    /\ <<screen.userId, screen.movieId>> \in DOMAIN ratings

\* the liked movies of the user that the other user rated >= 4
SharedLikes(userId, n) == {m \in LikedBy(userId) : HasHighRating(n, m)}

\* C19: a neighbor found through several liked movies of the user is in the
\* neighbor set once, and each neighbor's rating of a returned movie is in
\* that movie's score once.
C19_NoDoubleCounting ==
    IsRecommendation =>
        /\ \A i \in 1 .. Len(ret.neighbors) : \A j \in 1 .. Len(ret.neighbors) :
               ret.neighbors[i] = ret.neighbors[j] => i = j
        /\ \A r \in Returned :
               r.score = SumOfHighRatings(
                             {ret.neighbors[i] : i \in 1 .. Len(ret.neighbors)}, r.id)

\* a movie was returned that is rated by a neighbor sharing two liked movies
\* with the user
C19_Witness ==
    /\ IsRecommendation
    /\ \E i \in 1 .. Len(ret.neighbors) :
           /\ Cardinality(SharedLikes(ret.userId, ret.neighbors[i])) >= 2
           /\ \E r \in Returned : HasHighRating(ret.neighbors[i], r.id)

\* the candidates of the user: the movies a neighbor rated >= 4 that are not
\* in the user's watchedMovies list
CandidatesOf(userId) ==
    {m \in Movies :
        /\ m \notin WatchedIdSet(userId)
        /\ \E n \in NeighborsOf(userId) : HasHighRating(n, m)}

\* the length of the first k elements of a list of n
FirstOf(k, n) == IF k < 0 THEN 0 ELSE IF k < n THEN k ELSE n

\* C20: when no read fails, the sequence getRecommendedMovies(U, limit)
\* returns is the first min(limit, number of candidates) elements of the
\* candidates sorted by score descending: it has that length, holds
\* candidates with their scores in descending order, and no candidate left
\* out has a higher score than one returned.
C20_TopOfSortedCandidates ==
    (IsRecommendation /\ ~ret.failed) =>
        /\ Len(ret.value) = FirstOf(ret.limit, Cardinality(CandidatesOf(ret.userId)))
        /\ \A i \in 1 .. Len(ret.value) : \A j \in 1 .. Len(ret.value) :
               /\ ret.value[i].id = ret.value[j].id => i = j
               /\ i <= j => ret.value[i].score >= ret.value[j].score
        /\ \A r \in Returned :
               /\ r.id \in CandidatesOf(ret.userId)
               /\ r.score = ExpectedScore(ret.userId, r.id)
               /\ \A m \in CandidatesOf(ret.userId) \ {x.id : x \in Returned} :
                      ExpectedScore(ret.userId, m) <= r.score

\* the movie ids of `docs` not yet in `seen` and not watched, appended to
\* `seen` in the order of `docs`
RECURSIVE FirstSeen(_, _, _)
FirstSeen(seen, docs, watchedIds) ==
    IF docs = << >> THEN seen
    ELSE LET m == Head(docs).movieId
         IN  FirstSeen(IF m \in watchedIds \/ (\E i \in 1 .. Len(seen) : seen[i] = m)
                       THEN seen
                       ELSE Append(seen, m),
                       Tail(docs), watchedIds)

\* the movies in the order in which iterating the neighbors, and of each
\* neighbor the ratings >= 4 as its query returns them, first meets them
RECURSIVE EncounterOrder(_, _, _)
EncounterOrder(seen, neighbors, watchedIds) ==
    IF neighbors = << >> THEN seen
    ELSE EncounterOrder(
             FirstSeen(seen, HighRatingsOfUser(ratings, Head(neighbors)), watchedIds),
             Tail(neighbors), watchedIds)

PositionIn(seq, x) == CHOOSE i \in 1 .. Len(seq) : seq[i] = x

\* C21: returned movies of equal score are in the order in which they were
\* first met while iterating the neighbors and their ratings.
C21_TiesInInsertionOrder ==
    IsRecommendation =>
        LET order == EncounterOrder(<< >>, ret.neighbors, WatchedIdSet(ret.userId))
        IN  \A i \in 1 .. Len(ret.value) : \A j \in 1 .. Len(ret.value) :
                (i < j /\ ret.value[i].score = ret.value[j].score)
                    => PositionIn(order, ret.value[i].id)
                           < PositionIn(order, ret.value[j].id)

\* two movies of equal score were returned, the one of the greater id first
C21_Witness ==
    /\ IsRecommendation
    /\ Len(ret.value) >= 2
    /\ ret.value[1].score = ret.value[2].score
    /\ ret.value[1].id > ret.value[2].id

\* C26: the movie ids of a returned sequence are pairwise distinct; a movie
\* rated by several neighbors appears once, with the accumulated score.
C26_DistinctIds ==
    IsRecommendation =>
        /\ \A i \in 1 .. Len(ret.value) : \A j \in 1 .. Len(ret.value) :
               ret.value[i].id = ret.value[j].id => i = j
        /\ \A r \in Returned :
               r.score = SumOfHighRatings(NeighborsOf(ret.userId), r.id)

\* a movie was returned that two neighbors rated >= 4
C26_Witness ==
    /\ IsRecommendation
    /\ \E r \in Returned :
           Cardinality({n \in NeighborsOf(ret.userId) : HasHighRating(n, r.id)}) >= 2

\* C23: no movie id is both in a user's watchlist and in that user's
\* watchedMovies list.
C23_WatchedNotWatchlisted ==
    \A u \in DOMAIN users : \A m \in StoreMovies :
        ~(EntriesOf(users, u, m) # {} /\ RecordsOf(u, m) # {})

---------------------------------------------------------------------------
(* Ratings whose documents carry different display fields for one movie     *)

\* <<user, movie, rating>>: user 1 likes movie 1, as users 2 and 3 do, who
\* rate movie 2 as well
TitleCalls ==
    { <<1, 1, 5>>, <<2, 1, 5>>, <<3, 1, 4>>,
      <<2, 2, 4>>, <<2, 2, 5>>, <<3, 2, 5>> }

\* addWatchedMovie for a movie the user has not rated yet, the movie object
\* carrying either of its display titles
TitlesRate ==
    \E c \in TitleCalls :
        \E t \in DisplayTitles(c[2]) :
            /\ ~AlreadyWatched(WatchedMovieIds(GetWatchedMovies(users, c[1])), c[2])
            /\ AddWatchedMovie(c[1], [id |-> c[2], title |-> t], c[3], "", 1)
            /\ UNCHANGED <<call, screen, tasks>>

TitlesRecommend ==
    \E u \in Users :
        /\ GetRecommendedMovies(u, DefaultLimit, "none")
        /\ UNCHANGED <<call, screen, tasks>>

NextTitles == TitlesRate \/ TitlesRecommend

SpecTitles == Init /\ [][NextTitles]_vars

\* the neighbors of the returned call that rated the movie >= 4, as their
\* positions in the order the call iterated them
HighRaterPositions(movieId) ==
    {i \in 1 .. Len(ret.neighbors) : HasHighRating(ret.neighbors[i], movieId)}

\* the rating document met first for the movie: that of the first such neighbor
FirstRatingOf(movieId) ==
    LET first == CHOOSE i \in HighRaterPositions(movieId) :
                     \A j \in HighRaterPositions(movieId) : i <= j
    IN  ratings[<<ret.neighbors[first], movieId>>]

\* C22: the display fields of a returned movie are those of the first
\* neighbor rating met for it; later ratings of the movie change its score only.
C22_FieldsOfFirstRating ==
    IsRecommendation =>
        \A r \in Returned :
            /\ r.id = FirstRatingOf(r.id).movie.id
            /\ r.title = FirstRatingOf(r.id).movie.title

\* a movie was returned that a later neighbor rated under another title
C22_Witness ==
    /\ IsRecommendation
    /\ \E r \in Returned :
           \E j \in HighRaterPositions(r.id) :
               ratings[<<ret.neighbors[j], r.id>>].movie.title # r.title

---------------------------------------------------------------------------
(* addWatchedMovie with a write that fails                                  *)

\* the awaited writes of addWatchedMovie that can reject: updateDoc of the
\* user document (793), setDoc of the rating document (803), and the
\* removeFromWatchlist call (817), which rethrows what it catches (760-763)
WriteFailPoints == {"updateDoc", "setDoc", "removeFromWatchlist"}

\* One call of addWatchedMovie in which the write `fail` rejects: the writes
\* awaited before it have taken effect, the catch logs and rethrows (820-823)
AddWatchedMovieFailing(userId, movie, rating, review, now, fail) ==
    LET us1 == EnsureUserDocument(users, userId)
        us2 == [us1 EXCEPT ![userId].watchedMovies =
                    ArrayUnion(@, WatchedRecord(movie, rating, review, now))]
    IN  /\ users' = IF fail = "updateDoc" THEN us1 ELSE us2
        /\ ratings' = IF fail = "removeFromWatchlist"
                      THEN SetDoc(ratings, <<userId, movie.id>>,
                                  RatingDocument(userId, movie, rating, review, now))
                      ELSE ratings
        /\ ret' = [op |-> "addWatchedMovie", status |-> "rejected"]

FailAddWatchedMovie ==
    \E u \in StoreUsers, m \in StoreMovies, r \in StoreRatings, now \in Clock,
       fail \in WriteFailPoints :
        /\ Len(GetWatchedMovies(users, u)) < MaxRecords
        /\ NotBefore(now)
        /\ AddWatchedMovieFailing(u, Movie(m), r, "", now, fail)
        /\ call' = [op |-> "addWatchedMovie", userId |-> u, movieId |-> m,
                    fail |-> fail]
        /\ UNCHANGED <<screen, tasks>>

NextFailure ==
    \/ ListAddToWatchlist
    \/ ListRemoveFromWatchlist
    \/ ListAddWatchedMovie
    \/ FailAddWatchedMovie

SpecFailure == Init /\ [][NextFailure]_vars

\* the call just made was an addWatchedMovie that raised an error
AddWatchedMovieRaised ==
    /\ call'.op = "addWatchedMovie"
    /\ ret'.op = "addWatchedMovie"
    /\ "status" \in DOMAIN ret'
    /\ ret'.status = "rejected"

\* C30: when addWatchedMovie raises an error, the user's watchedMovies list,
\* the ratings index and the watchlist are as they were before the call.
C30_UnchangedOnError ==
    [][AddWatchedMovieRaised =>
          /\ GetWatchedMovies(users', call'.userId) = GetWatchedMovies(users, call'.userId)
          /\ GetWatchlist(users', call'.userId) = GetWatchlist(users, call'.userId)
          /\ ratings' = ratings]_vars

---------------------------------------------------------------------------
(* The write operations as async functions: every await is a step of its    *)
(* own, and the steps of two calls in flight interleave                     *)

\* the ratings given by the calls in flight
TaskRatings == {4, 5}

\* <<operation, movie id, rating>> of the calls in flight, all for one user
AsyncCalls ==
    ({"addToWatchlist", "removeFromWatchlist"} \X StoreMovies \X {0})
        \cup ({"addWatchedMovie", "updateMovieRating"} \X StoreMovies \X TaskRatings)

\* the await an operation reaches once its ensureUserDocument has returned
AfterEnsure(op) ==
    CASE op = "addToWatchlist"       -> "addGet"
      [] op = "removeFromWatchlist"  -> "removeGet"
      [] op = "addWatchedMovie"      -> "watchedUpdate"
      [] op = "updateMovieRating"    -> "updateGet"
      [] op = "getRecommendedMovies" -> "watchedEnsure"

\* a call entered: it is suspended at the getDoc of ensureUserDocument (666);
\* userData and ratingDoc are the locals of those names, not yet assigned
NewTask(op, userId, movie, rating, review, now) ==
    [op |-> op, pc |-> "ensureGet", next |-> AfterEnsure(op),
     userId |-> userId, movie |-> movie, rating |-> rating,
     review |-> review, now |-> now,
     userData |-> << >>, ratingDoc |-> FALSE, value |-> Null]

\* task s resumes at pc `to`
Goto(s, to) == tasks' = [tasks EXCEPT ![s].pc = to]

\* task s returns `value`
Return(s, value) == tasks' = [tasks EXCEPT ![s].pc = "done", ![s].value = value]

\* the calls made one at a time before any call is in flight
NoTaskStarted == \A s \in Slots : tasks[s] = IdleTask

SetupWatchlist ==
    /\ NoTaskStarted
    /\ \E u \in StoreUsers : AddToWatchlist(u, Movie(1))
    /\ UNCHANGED <<call, screen, tasks>>

SetupWatched ==
    /\ NoTaskStarted
    /\ \E u \in StoreUsers, m \in StoreMovies :
           AddWatchedMovie(u, Movie(m), 2, "", 1)
    /\ UNCHANGED <<call, screen, tasks>>

StartCall ==
    \E s \in Slots, u \in StoreUsers, c \in AsyncCalls :
        /\ tasks[s] = IdleTask
        /\ tasks' = [tasks EXCEPT ![s] = NewTask(c[1], u, Movie(c[2]), c[3], "", 1)]
        /\ UNCHANGED <<users, ratings, ret, call, screen>>

\* ensureUserDocument: await getDoc(userDocRef), then the exists() test (666-668)
EnsureGet ==
    \E s \in Slots :
        /\ tasks[s].pc = "ensureGet"
        /\ Goto(s, IF tasks[s].userId \in DOMAIN users
                   THEN tasks[s].next
                   ELSE "ensureSet")
        /\ UNCHANGED <<users, ratings, ret, call, screen>>

\* ensureUserDocument: await setDoc(userDocRef, {...}) (670-679)
EnsureSet ==
    \E s \in Slots :
        /\ tasks[s].pc = "ensureSet"
        /\ users' = SetDoc(users, tasks[s].userId, NewUserDocument)
        /\ Goto(s, tasks[s].next)
        /\ UNCHANGED <<ratings, ret, call, screen>>

\* addToWatchlist: await getDoc(userRef) and the find (715-723)
AddGet ==
    \E s \in Slots :
        /\ tasks[s].pc = "addGet"
        /\ IF InWatchlist(users[tasks[s].userId].watchlist, tasks[s].movie.id)
           THEN Return(s, FALSE)
           ELSE Goto(s, "addUpdate")
        /\ UNCHANGED <<users, ratings, ret, call, screen>>

\* addToWatchlist: await updateDoc(userRef, {watchlist: arrayUnion(movie)}) (726-730)
AddUpdate ==
    \E s \in Slots :
        /\ tasks[s].pc = "addUpdate"
        /\ users' = [users EXCEPT ![tasks[s].userId].watchlist =
                         ArrayUnion(@, tasks[s].movie)]
        /\ Return(s, TRUE)
        /\ UNCHANGED <<ratings, ret, call, screen>>

\* removeFromWatchlist: await getDoc(userRef) (745-746)
RemoveGet ==
    \E s \in Slots :
        /\ tasks[s].pc = "removeGet"
        /\ tasks' = [tasks EXCEPT ![s].pc = "removeUpdate",
                                  ![s].userData = users[tasks[s].userId].watchlist]
        /\ UNCHANGED <<users, ratings, ret, call, screen>>

\* removeFromWatchlist: the filter and await updateDoc (749-756); called from
\* addWatchedMovie, that call returns next (817-819)
RemoveUpdate ==
    \E s \in Slots :
        /\ tasks[s].pc = "removeUpdate"
        /\ users' = [users EXCEPT ![tasks[s].userId].watchlist =
                         WithoutMovie(tasks[s].userData, tasks[s].movie.id)]
        /\ Return(s, TRUE)
        /\ UNCHANGED <<ratings, ret, call, screen>>

\* addWatchedMovie: await updateDoc(userRef, {watchedMovies: arrayUnion(...)}) (793-800)
WatchedUpdate ==
    \E s \in Slots :
        /\ tasks[s].pc = "watchedUpdate"
        /\ users' = [users EXCEPT ![tasks[s].userId].watchedMovies =
                         ArrayUnion(@, WatchedRecord(tasks[s].movie, tasks[s].rating,
                                                     tasks[s].review, tasks[s].now))]
        /\ Goto(s, "ratingSet")
        /\ UNCHANGED <<ratings, ret, call, screen>>

\* addWatchedMovie: await setDoc(doc(db, 'ratings', ...)) (803-814), then
\* removeFromWatchlist is entered (817), which starts with ensureUserDocument
RatingSet ==
    \E s \in Slots :
        /\ tasks[s].pc = "ratingSet"
        /\ ratings' = SetDoc(ratings, <<tasks[s].userId, tasks[s].movie.id>>,
                             RatingDocument(tasks[s].userId, tasks[s].movie,
                                            tasks[s].rating, tasks[s].review,
                                            tasks[s].now))
        /\ tasks' = [tasks EXCEPT ![s].pc = "ensureGet", ![s].next = "removeGet"]
        /\ UNCHANGED <<users, ret, call, screen>>

\* updateMovieRating: await getDoc(userRef) (834-835)
UpdateGet ==
    \E s \in Slots :
        /\ tasks[s].pc = "updateGet"
        /\ tasks' = [tasks EXCEPT ![s].pc = "updateWrite",
                                  ![s].userData = users[tasks[s].userId].watchedMovies]
        /\ UNCHANGED <<users, ratings, ret, call, screen>>

\* updateMovieRating: the map and await updateDoc (838-852)
UpdateWrite ==
    \E s \in Slots :
        /\ tasks[s].pc = "updateWrite"
        /\ users' = [users EXCEPT ![tasks[s].userId].watchedMovies =
                         WithRating(tasks[s].userData, tasks[s].movie.id,
                                    tasks[s].rating, tasks[s].review)]
        /\ Goto(s, "indexGet")
        /\ UNCHANGED <<ratings, ret, call, screen>>

\* updateMovieRating: await getDoc(ratingRef) (855-856)
IndexGet ==
    \E s \in Slots :
        /\ tasks[s].pc = "indexGet"
        /\ tasks' = [tasks EXCEPT
                        ![s].pc = "indexWrite",
                        ![s].ratingDoc =
                            <<tasks[s].userId, tasks[s].movie.id>> \in DOMAIN ratings]
        /\ UNCHANGED <<users, ratings, ret, call, screen>>

\* lines 858-881 with the ratingDoc and userData read before
IndexWritten(rt, t) ==
    LET id == <<t.userId, t.movie.id>>
        found == {i \in 1 .. Len(t.userData) : t.userData[i].id = t.movie.id}
        first == CHOOSE i \in found : \A j \in found : i <= j
    IN  IF t.ratingDoc
        THEN [rt EXCEPT ![id].rating = t.rating,
                        ![id].review = OrElse(t.review, Null)]
        ELSE IF found # {}
        THEN SetDoc(rt, id,
                 [userId |-> t.userId, movieId |-> t.movie.id,
                  movie |-> [id |-> t.movie.id, title |-> t.userData[first].title],
                  rating |-> t.rating, review |-> OrElse(t.review, Null),
                  timestamp |-> t.now])
        ELSE rt

\* updateMovieRating: await updateDoc or setDoc of the rating document, return true
IndexWrite ==
    \E s \in Slots :
        /\ tasks[s].pc = "indexWrite"
        /\ ratings' = IndexWritten(ratings, tasks[s])
        /\ Return(s, TRUE)
        /\ UNCHANGED <<users, ret, call, screen>>

NextAsync ==
    \/ SetupWatchlist
    \/ SetupWatched
    \/ StartCall
    \/ EnsureGet
    \/ EnsureSet
    \/ AddGet
    \/ AddUpdate
    \/ RemoveGet
    \/ RemoveUpdate
    \/ WatchedUpdate
    \/ RatingSet
    \/ UpdateGet
    \/ UpdateWrite
    \/ IndexGet
    \/ IndexWrite

SpecAsync == Init /\ [][NextAsync]_vars

\* task s completes the setDoc of its ensureUserDocument in this step
EnsureSetStep(s) == tasks[s].pc = "ensureSet" /\ tasks'[s].pc # "ensureSet"

\* no call but that of slot s is in flight: every other one has completed
OthersCompleted(s) == \A t \in Slots \ {s} : tasks[t].pc \in {"idle", "done"}

\* C27: the setDoc of an operation's ensureUserDocument erases no entry that
\* a completed operation added to the user's watchedMovies or watchlist.
C27_EnsureKeepsData ==
    [][\A s \in Slots :
          (EnsureSetStep(s) /\ OthersCompleted(s))
              => \A u \in DOMAIN users :
                     /\ GetWatchedMovies(users', u) = GetWatchedMovies(users, u)
                     /\ GetWatchlist(users', u) = GetWatchlist(users, u)]_vars

\* the call of slot s has completed successfully: it returned true
Succeeded(s) == tasks[s].pc = "done" /\ tasks[s].value = TRUE

\* C28: once removeFromWatchlist(u, m1) and addToWatchlist(u, m2), m1 # m2,
\* have both completed successfully, m2 is in the watchlist and m1 is not.
C28_NoLostWatchlistUpdate ==
    \A s, t \in Slots :
        ( /\ Succeeded(s) /\ tasks[s].op = "removeFromWatchlist"
          /\ Succeeded(t) /\ tasks[t].op = "addToWatchlist"
          /\ tasks[s].userId = tasks[t].userId
          /\ tasks[s].movie.id # tasks[t].movie.id )
            => LET watchlist == GetWatchlist(users, tasks[s].userId)
               IN  /\ InWatchlist(watchlist, tasks[t].movie.id)
                   /\ ~InWatchlist(watchlist, tasks[s].movie.id)

\* the call of slot s is a rating call that completed successfully; an
\* updateMovieRating found a record of its movie in the list it read (834)
RatedBy(s) ==
    /\ Succeeded(s)
    /\ \/ tasks[s].op = "addWatchedMovie"
       \/ /\ tasks[s].op = "updateMovieRating"
          /\ \E i \in 1 .. Len(tasks[s].userData) :
                 tasks[s].userData[i].id = tasks[s].movie.id

\* the user's watchedMovies list holds a record of the movie with the rating
ListHoldsRating(userId, movieId, rating) ==
    \E i \in RecordsOf(userId, movieId) :
        GetWatchedMovies(users, userId)[i].rating = rating

\* the ratings index holds the rating for the user and the movie
IndexHoldsRating(userId, movieId, rating) ==
    /\ <<userId, movieId>> \in DOMAIN ratings
    /\ ratings[<<userId, movieId>>].rating = rating

\* C29: once updateMovieRating(u, m1, r1) and a rating call for (u, m2, r2),
\* m1 # m2, have both completed successfully, watchedMovies holds r1 for m1
\* and r2 for m2, and so does the ratings index.
C29_NoLostRatingUpdate ==
    \A s, t \in Slots :
        ( /\ s # t
          /\ RatedBy(s) /\ tasks[s].op = "updateMovieRating"
          /\ RatedBy(t)
          /\ tasks[s].userId = tasks[t].userId
          /\ tasks[s].movie.id # tasks[t].movie.id )
            => \A c \in {s, t} :
                   /\ ListHoldsRating(tasks[c].userId, tasks[c].movie.id, tasks[c].rating)
                   /\ IndexHoldsRating(tasks[c].userId, tasks[c].movie.id, tasks[c].rating)

\* C24: once two rating calls for the same user and movie have both
\* completed, the watchedMovies record and the ratings-index entry carry the
\* rating of one and the same call.
C24_LastWriteWins ==
    \A s, t \in Slots :
        ( /\ s # t
          /\ RatedBy(s)
          /\ RatedBy(t)
          /\ tasks[s].userId = tasks[t].userId
          /\ tasks[s].movie.id = tasks[t].movie.id )
            => \E c \in {s, t} :
                   /\ ListHoldsRating(tasks[c].userId, tasks[c].movie.id, tasks[c].rating)
                   /\ IndexHoldsRating(tasks[c].userId, tasks[c].movie.id, tasks[c].rating)

---------------------------------------------------------------------------
(* getRecommendedMovies as an async function: two calls in flight over a    *)
(* database that no rating call writes meanwhile                            *)

\* <<user, movie, rating>> of the ratings given before the calls are made
ReaderCalls ==
    { <<1, 1, 5>>, <<2, 1, 5>>, <<2, 2, 4>>,
      <<3, 1, 4>>, <<3, 2, 5>>, <<3, 3, 4>> }

\* the limits of the calls in flight
ReaderLimits == {MaxLimit, DefaultLimit}

\* one Set shared by the calls in flight: a call starts from what another left
SharedSimilarUsersSet(s) ==
    LET others == {t \in Slots \ {s} : "similarUsersSet" \in DOMAIN tasks[t]}
    IN  IF others = {} THEN << >>
        ELSE tasks[CHOOSE t \in others : TRUE].similarUsersSet

\* const similarUsersSet = new Set<string>() (935): a Set of the call's own
NewSimilarUsersSet(s) == << >>

\* getRecommendedMovies(userId, limit) entered: suspended at the getDoc of
\* ensureUserDocument (914, 666), its locals not yet assigned
NewReader(userId, limit) ==
    [op |-> "getRecommendedMovies", pc |-> "ensureGet",
     next |-> AfterEnsure("getRecommendedMovies"),
     userId |-> userId, limit |-> limit,
     watchedMovieIds |-> << >>, todo |-> << >>,
     similarUsersSet |-> << >>, recommendedMoviesMap |-> << >>,
     value |-> Null]

ReaderSetup ==
    /\ NoTaskStarted
    /\ \E c \in ReaderCalls :
           /\ ~AlreadyWatched(WatchedMovieIds(GetWatchedMovies(users, c[1])), c[2])
           /\ AddWatchedMovie(c[1], Movie(c[2]), c[3], "", 1)
    /\ UNCHANGED <<call, screen, tasks>>

StartReader ==
    \E s \in Slots, u \in Users, limit \in ReaderLimits :
        /\ tasks[s] = IdleTask
        /\ tasks' = [tasks EXCEPT ![s] = NewReader(u, limit)]
        /\ UNCHANGED <<users, ratings, ret, call, screen>>

\* getWatchedMovies entered (922): it starts with ensureUserDocument (896)
WatchedEnter ==
    \E s \in Slots :
        /\ tasks[s].pc = "watchedEnsure"
        /\ tasks' = [tasks EXCEPT ![s].pc = "ensureGet", ![s].next = "watchedGet"]
        /\ UNCHANGED <<users, ratings, ret, call, screen>>

\* getWatchedMovies: await getDoc (898-901); then lines 923-935
WatchedGet ==
    \E s \in Slots :
        /\ tasks[s].pc = "watchedGet"
        /\ LET watched == GetWatchedMovies(users, tasks[s].userId)
               liked == HighlyRatedMovies(watched)
           IN  IF Len(liked) = 0
               THEN Return(s, << >>)
               ELSE tasks' = [tasks EXCEPT
                                 ![s].pc = "ratersQuery",
                                 ![s].watchedMovieIds = WatchedMovieIds(watched),
                                 ![s].todo = liked,
                                 ![s].similarUsersSet = NewSimilarUsersSet(s)]
        /\ UNCHANGED <<users, ratings, ret, call, screen>>

\* one turn of the loop over highlyRatedMovies: await getDocs and forEach
\* (937-951); after the last turn lines 953-960
RatersQuery ==
    \E s \in Slots :
        /\ tasks[s].pc = "ratersQuery"
        /\ LET set == AddRaters(tasks[s].similarUsersSet,
                                RatersOfMovie(ratings, Head(tasks[s].todo).id),
                                tasks[s].userId)
               rest == Tail(tasks[s].todo)
           IN  IF rest # << >>
               THEN tasks' = [tasks EXCEPT ![s].similarUsersSet = set,
                                           ![s].todo = rest]
               ELSE IF Len(set) = 0
               THEN tasks' = [tasks EXCEPT ![s].similarUsersSet = set,
                                           ![s].todo = rest,
                                           ![s].pc = "done",
                                           ![s].value = << >>]
               ELSE tasks' = [tasks EXCEPT ![s].similarUsersSet = set,
                                           ![s].todo = set,
                                           ![s].pc = "neighborQuery"]
        /\ UNCHANGED <<users, ratings, ret, call, screen>>

\* one turn of the loop over similarUsers: await getDocs and forEach
\* (962-990); after the last turn lines 993-997
NeighborQuery ==
    \E s \in Slots :
        /\ tasks[s].pc = "neighborQuery"
        /\ LET map == AddCandidates(tasks[s].recommendedMoviesMap,
                                    HighRatingsOfUser(ratings, Head(tasks[s].todo)),
                                    tasks[s].watchedMovieIds)
               rest == Tail(tasks[s].todo)
           IN  IF rest # << >>
               THEN tasks' = [tasks EXCEPT ![s].recommendedMoviesMap = map,
                                           ![s].todo = rest]
               ELSE tasks' = [tasks EXCEPT
                                 ![s].recommendedMoviesMap = map,
                                 ![s].todo = rest,
                                 ![s].pc = "done",
                                 ![s].value = Slice(SortByScore(MapValues(map)),
                                                    tasks[s].limit)]
        /\ UNCHANGED <<users, ratings, ret, call, screen>>

NextReaders ==
    \/ ReaderSetup
    \/ StartReader
    \/ EnsureGet
    \/ EnsureSet
    \/ WatchedEnter
    \/ WatchedGet
    \/ RatersQuery
    \/ NeighborQuery

SpecReaders == Init /\ [][NextReaders]_vars

\* what getRecommendedMovies(userId, limit) returns when it is the only call
\* in flight and no read fails
ReturnedAlone(userId, limit) ==
    LET watched == GetWatchedMovies(users, userId)
        liked == HighlyRatedMovies(watched)
        neighbors == SimilarUsers(<< >>, liked, ratings, userId)
    IN  IF Len(liked) = 0 THEN << >>
        ELSE IF Len(neighbors) = 0 THEN << >>
        ELSE Slice(RankedCandidates(neighbors, ratings, WatchedMovieIds(watched)),
                   limit)

\* C25: with no rating written meanwhile, each of two getRecommendedMovies
\* calls in flight together returns the sequence it returns when run alone.
C25_ReadersDoNotInterfere ==
    \A s \in Slots :
        (tasks[s].pc = "done" /\ tasks[s].op = "getRecommendedMovies")
            => tasks[s].value = ReturnedAlone(tasks[s].userId, tasks[s].limit)

\* a call has returned a movie while another call for the same user is in
\* its loop over the neighbors, a candidate already met
C25_Witness ==
    \E s, t \in Slots :
        /\ s # t
        /\ tasks[s].pc = "done"
        /\ tasks[s].op = "getRecommendedMovies"
        /\ tasks[s].value # << >>
        /\ tasks[t].pc = "neighborQuery"
        /\ tasks[t].userId = tasks[s].userId
        /\ tasks[t].recommendedMoviesMap # << >>

===========================================================================
